---- MODULE Spec2Model ----
(***************************************************************************)
(* GSB-Selenium: the search-session loop of GoogleSearchBot                *)
(* (core/gsb.py), the browser resource StealthDriver                       *)
(* (utils/stealth_driver.py), the profile storage ChromeProfileManager     *)
(* (utils/profile_manager.py) and the proxy identity GSBConfig.proxy_string*)
(* (core/config.py).                                                       *)
(*                                                                         *)
(* Collaborators (browser, captcha service, search-term source, file       *)
(* system) are the environment: each call returns one of the results the   *)
(* code distinguishes, raises an Exception, or is cut by KeyboardInterrupt.*)
(***************************************************************************)
EXTENDS Integers, Sequences, FiniteSets, TLC

\* ------------------------------------------------------------------ bounds
\* Largest num_searches a run is started with.
MaxSearches == 2
\* How many of the profile numbers of randint(100000, 999999) are drawn.
NumProfileNames == 2
\* How many of the session tokens of randint(606150694, 606250693) are drawn.
NumSessIds == 2
\* Longest list of result links find_elements returns.
MaxLinks == 2
\* Instances run_parallel starts.
NumInstances == 2
\* How many entries of the user-agent catalog are drawn.
NumUserAgents == 2
\* random.random() is drawn as one of the fractions 0/k .. k/k, k = UniformSteps.
UniformSteps == 2
\* Longest link URL and target tried (characters).
MaxUrlLen == 2
\* Longest search term tried (characters).
MaxTermLen == 3

\* ------------------------------------------------------- program constants
ProfileMin == 100000
SessIdMin == 606150694
SessIdMax == 606250693
\* None, for a profile name and for a driver.
NoProfile == 0
NoDriver == 0
\* num_searches = None, the default of run_search_session.
NoneGiven == 0
\* GSBConfig.search_range_min, as the examples set it.
search_range_min == 1
\* The result selectors _verify_search_results probes.
NumProbes == 4
\* GSBConfig defaults of the inter-search wait, in seconds.
min_search_interval == 60
max_search_interval == 120

\* GSBConfig.search_range_max.
search_range_max == MaxSearches

\* What run_search_session is called with: None or a number of searches.
Arguments == {NoneGiven} \cup (1..MaxSearches)

\* GSBConfig.get_user_agents: the catalog, by index.
get_user_agents == 1..NumUserAgents

ProfileNames == ProfileMin .. (ProfileMin + NumProfileNames - 1)
SessIds == SessIdMin .. (SessIdMin + NumSessIds - 1)

\* The configuration switches the session loop reads (GSBConfig fields, and
\* whether GoogleSearchBot.__init__ built a CaptchaSolver).
Configs ==
    [use_profiles : BOOLEAN, cleanup_profiles : BOOLEAN,
     has_solver : BOOLEAN, has_target : BOOLEAN]

VARIABLES
    pc,             \* position of run_search_session
    cfg,            \* self.config (and self.captcha_solver is not None)
    num_searches,   \* the argument of run_search_session, then the number
                    \* of searches decided at its entry
    search_num,     \* loop variable of "for search_num in range(num_searches)"
    loc,            \* locals success, target_clicked, captcha_solved
    pending,        \* exception propagating through the with block
    outcomes,       \* the end_run calls, in order
    sd,             \* StealthDriver.driver and StealthDriver.current_profile
    pm_current,     \* ChromeProfileManager.current_profile
    profileDirs,    \* profile directories existing under user_data_dir
    ev,             \* what happened in the current session (history)
    waits,          \* inter-session waits made so far
    par,            \* run_parallel: the StealthDriver of each instance
    patterns,       \* TimingPattern.patterns of self.timing
    call,           \* the latest call of a utility function, with its result
    pool            \* run_parallel: the executor's futures and the results

vars == <<pc, cfg, num_searches, search_num, loc, pending, outcomes, sd,
          pm_current, profileDirs, ev, waits, par, patterns, call, pool>>

\* The state of the utilities, which no step of a session assigns.
utilVars == <<patterns, call, pool>>

\* TimingPattern.__init__: the registered bounds (min, max), in hundredths
\* of a second.
TimingPattern ==
    [activity \in {"search", "navigation", "click", "typing", "page_load",
                   "captcha_solve"} |->
        CASE activity = "search" -> <<100, 300>>
          [] activity = "navigation" -> <<200, 400>>
          [] activity = "click" -> <<50, 150>>
          [] activity = "typing" -> <<5, 15>>
          [] activity = "page_load" -> <<300, 700>>
          [] activity = "captcha_solve" -> <<1500, 3000>>]

\* No utility was called yet.
NoCall == [op |-> "none"]

\* The instances run_parallel starts, each with its own GoogleSearchBot,
\* StealthDriver and ChromeProfileManager, all on the same user_data_dir.
Instances == 1..NumInstances

\* One instance before its first session.
IdleInstance ==
    [pc |-> "idle",              \* "idle" between sessions, "active" in a with body
     left |-> 0,                 \* sessions still to run
     driver |-> NoDriver,        \* StealthDriver.driver
     current_profile |-> NoProfile,  \* StealthDriver.current_profile
     pm_current |-> NoProfile,   \* ChromeProfileManager.current_profile
     using |-> NoProfile,        \* directory the live browser was started on
     ua |-> {},                  \* user agent chosen for the latest session
     prev_ua |-> {}]             \* user agent chosen for the session before it

\* run_parallel before executor.submit: no future exists, nothing collected.
NoPool ==
    [pc |-> "submit",                \* position of run_parallel
     searches_per_instance |-> 0,    \* the option given to the command
     inst |-> [i \in Instances |->
                 [at |-> "none",     \* position of run_instance(i)
                  asked |-> 0,       \* argument of its run_search_session
                  raised |-> {}]],   \* what raised in it
     collected |-> {},               \* futures as_completed has yielded
     results |-> <<>>,               \* the list results
     successful |-> 0]               \* sum(results), once computed

\* Locals of one loop iteration, gsb.py lines 76-81: the new PerformanceTimer
\* (start_time 0.0) and success, target_clicked, captcha_solved.
InitLocals ==
    [success |-> FALSE, target_clicked |-> FALSE, captcha_solved |-> FALSE,
     start_time |-> 0]

\* History of one session: nothing has happened yet.
NoEvents ==
    [started |-> FALSE,          \* start_run returned
     driver_created |-> FALSE,   \* wire_webdriver.Chrome returned
     quit_called |-> FALSE,      \* driver.quit was invoked
     quit_raised |-> FALSE,      \* ... and raised
     profile |-> NoProfile,      \* directory create_random_profile made
     browser_sessid |-> {},      \* token in the browser's proxy string
     solver_sessid |-> {},       \* token in the solver's proxy string
     failed |-> "none",          \* stage that returned failure
     raised |-> {},              \* stages in which a collaborator raised
     captcha_detected |-> FALSE,
     captcha_checked |-> FALSE,  \* _detect_captcha returned
     target_called |-> FALSE,    \* _find_and_click_target was entered
     target_how |-> "none",      \* how _find_and_click_target ended
     scanned |-> FALSE,          \* the link loop took up a link
     draws |-> 0,                \* should_click_target draws
     clicks |-> 0,               \* human_click calls
     interrupted |-> FALSE,
     waited |-> {},              \* seconds slept after the session
     clock |-> 0,                \* time.perf_counter(), counted from the
                                 \* beginning of the iteration: no reading
                                 \* outlives the iteration's timer
     elapsed |-> 0,              \* time passed since timer.start()
     count_draws |-> 0]          \* random.randint draws of the number of searches

Init ==
    /\ pc = "entry"
    /\ cfg \in Configs
    /\ num_searches \in Arguments
    /\ search_num = 0
    /\ loc = InitLocals
    /\ pending = "none"
    /\ outcomes = <<>>
    /\ sd = [driver |-> NoDriver, current_profile |-> NoProfile]
    /\ pm_current = NoProfile
    /\ profileDirs = {}
    /\ ev = NoEvents
    /\ waits = 0
    /\ par = [i \in Instances |-> [IdleInstance EXCEPT !.left = MaxSearches]]
    /\ patterns = TimingPattern
    /\ call = NoCall
    /\ pool = NoPool

\* ----------------------------------------------------------------- helpers
\* GSBConfig.proxy_string: every read draws a session token and formats it
\* into the proxy URL (fields of the URL kept apart).
proxy_string(sessid) ==
    [scheme |-> "https", customer |-> "customer-nivos_qR24w-cc-us",
     sessid |-> sessid, sesstime |-> 10, host |-> "pr.oxylabs.io", port |-> 7777]

\* ChromeProfileManager.create_random_profile with profile number `name`.
\* how = "ok": the directory is made and its name returned;
\* how = "mkdir_failed": an exception before the directory exists, None returned;
\* how = "setup_failed": _setup_profile_structure raised after mkdir, None
\* returned and the directory stays.
create_random_profile(dirs, pmcur, name, how) ==
    CASE how = "ok" ->
           [dirs |-> dirs \cup {name}, pm_current |-> name, ret |-> name, made |-> name]
      [] how = "setup_failed" ->
           [dirs |-> dirs \cup {name}, pm_current |-> pmcur, ret |-> NoProfile, made |-> name]
      [] OTHER ->
           [dirs |-> dirs, pm_current |-> pmcur, ret |-> NoProfile, made |-> NoProfile]

ProfileOutcomes == {"ok", "mkdir_failed", "setup_failed"}

\* ChromeProfileManager.cleanup_profile(profile_name); rmtree_ok = FALSE when
\* shutil.rmtree raises (caught and logged, the directory stays).
cleanup_profile(enabled, dirs, pmcur, profile_name, rmtree_ok) ==
    LET target == IF profile_name # NoProfile THEN profile_name ELSE pmcur IN
    IF ~enabled \/ target = NoProfile
    THEN [dirs |-> dirs, pm_current |-> pmcur]
    ELSE IF target \in dirs /\ ~rmtree_ok
         THEN [dirs |-> dirs, pm_current |-> pmcur]
         ELSE [dirs |-> dirs \ {target},
               pm_current |-> IF target = pmcur THEN NoProfile ELSE pmcur]

\* The link loop of _find_and_click_target (gsb.py lines 315-340) over the
\* links find_elements returned, from link i on; visited counts the links the
\* loop took up. A link is
\*   "other"        its href does not contain the target,
\*   "attr_raises"  get_attribute raises (inner except: continue),
\*   "match"        href matches, click and dwell succeed (return True),
\*   "click_raises" href matches, human_click raises before clicking,
\*   "post_raises"  href matches, the click is made, then the wait, screenshot
\*                  or dwell raises (inner except: continue).
LinkKinds == {"other", "attr_raises", "match", "click_raises", "post_raises"}

RECURSIVE scan_links(_, _, _, _)
scan_links(links, i, clicks, raised) ==
    IF i > Len(links)
    THEN [clicked |-> FALSE, clicks |-> clicks, raised |-> raised, visited |-> i - 1]
    ELSE CASE links[i] = "match" ->
                [clicked |-> TRUE, clicks |-> clicks + 1, raised |-> raised, visited |-> i]
           [] links[i] = "other" -> scan_links(links, i + 1, clicks, raised)
           [] links[i] = "post_raises" -> scan_links(links, i + 1, clicks + 1, TRUE)
           [] OTHER -> scan_links(links, i + 1, clicks, TRUE)

LinkLists == UNION {[1..n -> LinkKinds] : n \in 0..MaxLinks}

\* after_probe with an error of a probe skipped like a timeout.
after_probeSkippingErrors(result) ==
    IF result = "found" THEN "return_true" ELSE "continue"

\* What one probe of the loop (lines 217-223) leads to: the element is
\* present, wait.until raised TimeoutException, or it raised another
\* exception, which the outer handler (line 227) turns into False.
after_probe(result) ==
    CASE result = "found" -> "return_true"
      [] result = "timeout" -> "continue"
      [] OTHER -> "return_false"

\* The selector loop of _verify_search_results (gsb.py lines 217-229) from
\* probe i on: the first probe that finds its element ends the loop with
\* True, a probe's error ends it with False, and tried counts the probes made.
RECURSIVE verify_search_results(_, _)
verify_search_results(probes, i) ==
    IF i > Len(probes)
    THEN [ok |-> FALSE, tried |-> i - 1]
    ELSE CASE after_probe(probes[i]) = "return_true" -> [ok |-> TRUE, tried |-> i]
           [] after_probe(probes[i]) = "return_false" -> [ok |-> FALSE, tried |-> i]
           [] OTHER -> verify_search_results(probes, i + 1)

ProbeResults == [1..NumProbes -> {"found", "timeout", "error"}]

\* _perform_search, lines 167-169: it returns False when the verification
\* did, and goes on otherwise.
fails_at_verification(verified) == ~verified

\* AfterCaptcha with the test of success dropped from line 101.
AfterCaptchaIgnoringSuccess(success) == IF cfg.has_target THEN "target" ELSE "exit"

\* gsb.py line 101: the target step runs only for a successful search with a
\* target configured; otherwise the with block is left.
AfterCaptcha(success) == IF success /\ cfg.has_target THEN "target" ELSE "exit"

\* AfterDetect with the test of line 95 dropped: the solver is always called.
AfterDetectAlwaysSolving(detected, success) == "solve"

\* gsb.py lines 95-96: _solve_captcha is called only when _detect_captcha
\* returned True; otherwise control goes on to line 101.
AfterDetect(detected, success) == IF detected THEN "solve" ELSE AfterCaptcha(success)

\* KeyboardInterrupt inside the with block: no "except Exception" of a stage
\* catches it, __exit__ runs (pc "exit") and it propagates.
InterruptInBody ==
    /\ pc' = "exit"
    /\ pending' = "interrupt"
    /\ ev' = [ev EXCEPT !.interrupted = TRUE]
    /\ UNCHANGED <<loc, sd, pm_current, profileDirs>>

\* A stage of _perform_search ends the search with False (returned, or an
\* exception caught at gsb.py line 182): "if success" is skipped.
SearchFails(stage, byException) ==
    /\ pc' = "exit"
    /\ loc' = [loc EXCEPT !.success = FALSE]
    /\ ev' = [ev EXCEPT !.failed = stage,
                        !.raised = IF byException THEN @ \cup {stage} ELSE @]
    /\ UNCHANGED <<pending, sd, pm_current, profileDirs>>

\* random.uniform(a, b) = a + (b - a) * random.random(), with the fraction
\* u/UniformSteps for random.random().
Fractions == 0..UniformSteps

uniform(a, b, u) == a + ((b - a) * u) \div UniformSteps

\* timing.human_sleep(min_seconds, max_seconds): the seconds it sleeps.
human_sleep(min_seconds, max_seconds, u) == uniform(min_seconds, max_seconds, u)

\* gsb.py lines 120-125: wait_time is drawn from the configured interval and
\* human_sleep(wait_time, wait_time) sleeps it.
inter_search_wait(u1, u2) ==
    LET wait_time == uniform(min_search_interval, max_search_interval, u1) IN
    human_sleep(wait_time, wait_time, u2)

\* WaitDue with the test of line 119 dropped.
WaitDueAlways(sn, n) == TRUE

\* gsb.py line 119: no wait after the last search.
WaitDue(sn, n) == sn < n - 1

\* gsb.py line 71: "for search_num in range(num_searches)" has a next value.
LoopContinues(sn, n) == sn + 1 < n

\* Time passes: the clock advances by one unit. One unit passes in the
\* search-term lookup, before the timer is started, and one while the browser
\* is being started; the other calls are taken as instantaneous.
Tick(e) == [e EXCEPT !.clock = @ + 1, !.elapsed = @ + 1]

\* PerformanceTimer.stop with the subtraction of start_time dropped.
stopReturningEndTime(start_time, now) == now

\* PerformanceTimer.stop at clock reading now: end_time - start_time.
stop(start_time, now) == now - start_time

\* ----------------------------------------------------------------- actions
\* session_count with the test of line 64 dropped: the draw always decides.
session_countAlwaysDrawn(arg, drawn) == drawn

\* gsb.py lines 64-67: the number of searches of the run, from the argument
\* and the value random.randint(search_range_min, search_range_max) returns.
session_count(arg, drawn) == IF arg = NoneGiven THEN drawn ELSE arg

\* gsb.py lines 64-71: the entry of run_search_session. The draw is made only
\* when the argument is None; the loop then starts its first iteration.
ChooseNumSearches ==
    /\ pc = "entry"
    /\ \E drawn \in search_range_min..search_range_max :
          num_searches' = session_count(num_searches, drawn)
    /\ ev' = [ev EXCEPT !.count_draws = IF num_searches = NoneGiven THEN 1 ELSE 0]
    /\ pc' = "get_term"
    /\ UNCHANGED <<utilVars, par, cfg, search_num, loc, pending, outcomes, sd, pm_current,
                   profileDirs, waits>>

\* gsb.py line 73: the search-term source, called before the try. An exception
\* of the collaborator, or an interrupt, leaves run_search_session. The call
\* takes time, before the timer of the iteration exists.
GetNextSearchTerm ==
    /\ pc = "get_term"
    /\ \/ pc' = "start_run"
       \/ pc' = "raised"
       \/ pc' = "interrupted"
    /\ ev' = [NoEvents EXCEPT !.clock = @ + 1]
    /\ UNCHANGED <<utilVars, par, cfg, num_searches, search_num, loc, pending, outcomes, sd,
                   pm_current, profileDirs, waits>>

\* gsb.py lines 74-84: start_run, the timer (timer.start() reads the clock)
\* and the locals of the iteration.
StartRun ==
    /\ pc = "start_run"
    /\ pc' = "enter_profile"
    /\ loc' = [InitLocals EXCEPT !.start_time = ev.clock]
    /\ ev' = [ev EXCEPT !.started = TRUE, !.elapsed = 0]
    /\ pending' = "none"
    /\ UNCHANGED <<utilVars, par, cfg, num_searches, search_num, outcomes, sd, pm_current,
                   profileDirs, waits>>

\* StealthDriver.__enter__ -> create_driver, lines 38-40: the profile.
\* An interrupt here leaves __enter__, so __exit__ never runs.
EnterProfile ==
    /\ pc = "enter_profile"
    /\ \/ /\ cfg.use_profiles
          /\ \E name \in ProfileNames, how \in ProfileOutcomes :
                LET r == create_random_profile(profileDirs, pm_current, name, how) IN
                /\ profileDirs' = r.dirs
                /\ pm_current' = r.pm_current
                /\ sd' = [sd EXCEPT !.current_profile = r.ret]
                /\ ev' = [ev EXCEPT !.profile = r.made]
          /\ pc' = "enter_chrome"
       \/ /\ ~cfg.use_profiles
          /\ pc' = "enter_chrome"
          /\ UNCHANGED <<profileDirs, pm_current, sd, ev>>
       \/ /\ pc' = "interrupted"
          /\ ev' = [ev EXCEPT !.interrupted = TRUE]
          /\ UNCHANGED <<profileDirs, pm_current, sd>>
    /\ UNCHANGED <<utilVars, par, cfg, num_searches, search_num, loc, pending, outcomes, waits>>

\* create_driver, lines 42-62: options, the proxy options (one read of
\* config.proxy_string) and the browser. An exception of Chrome() leaves
\* __enter__: the with body and __exit__ are skipped, "except Exception" of
\* run_search_session catches it.
EnterChrome ==
    /\ pc = "enter_chrome"
    /\ \E t \in SessIds :
          LET seen == [Tick(ev) EXCEPT !.browser_sessid = {proxy_string(t).sessid}] IN
          \/ /\ pc' = "navigate"
             /\ sd' = [sd EXCEPT !.driver = search_num + 1]
             /\ ev' = [seen EXCEPT !.driver_created = TRUE]
          \/ /\ pc' = "except"
             /\ ev' = [seen EXCEPT !.raised = @ \cup {"create_driver"},
                                   !.failed = "create_driver"]
             /\ UNCHANGED sd
          \/ /\ pc' = "interrupted"
             /\ ev' = [seen EXCEPT !.interrupted = TRUE]
             /\ UNCHANGED sd
    /\ UNCHANGED <<utilVars, par, cfg, num_searches, search_num, loc, pending, outcomes,
                   pm_current, profileDirs, waits>>

\* _perform_search, lines 130-141: scripts, driver.get and the page-load wait.
Navigate ==
    /\ pc = "navigate"
    /\ \/ /\ pc' = "find_box"
          /\ UNCHANGED <<loc, pending, sd, pm_current, profileDirs, ev>>
       \/ SearchFails("navigate", TRUE)
       \/ InterruptInBody
    /\ UNCHANGED <<utilVars, par, cfg, num_searches, search_num, outcomes, waits>>

\* _perform_search, lines 147-151: _find_search_box; no box returns False.
FindSearchBox ==
    /\ pc = "find_box"
    /\ \/ /\ pc' = "submit"
          /\ UNCHANGED <<loc, pending, sd, pm_current, profileDirs, ev>>
       \/ SearchFails("find_box", FALSE)
       \/ SearchFails("find_box", TRUE)
       \/ InterruptInBody
    /\ UNCHANGED <<utilVars, par, cfg, num_searches, search_num, outcomes, waits>>

\* _perform_search, lines 153-164: type the term, submit, wait for the page.
SubmitQuery ==
    /\ pc = "submit"
    /\ \/ /\ pc' = "verify"
          /\ UNCHANGED <<loc, pending, sd, pm_current, profileDirs, ev>>
       \/ SearchFails("submit", TRUE)
       \/ InterruptInBody
    /\ UNCHANGED <<utilVars, par, cfg, num_searches, search_num, outcomes, waits>>

\* _perform_search, lines 166-169: _verify_search_results: True when one of
\* its probes finds results, False when all time out; it catches its own
\* exceptions and returns False.
VerifyResults ==
    /\ pc = "verify"
    /\ \/ /\ \E probes \in ProbeResults : verify_search_results(probes, 1).ok
          /\ pc' = "after_verify"
          /\ UNCHANGED <<loc, pending, sd, pm_current, profileDirs, ev>>
       \/ /\ \E probes \in ProbeResults : ~verify_search_results(probes, 1).ok
          /\ SearchFails("verify", FALSE)
       \/ SearchFails("verify", TRUE)
       \/ InterruptInBody
    /\ UNCHANGED <<utilVars, par, cfg, num_searches, search_num, outcomes, waits>>

\* _perform_search, lines 171-180: screenshot, simulated browsing, return True;
\* run_search_session line 91 stores the result in success.
FinishSearch ==
    /\ pc = "after_verify"
    /\ \/ /\ pc' = "detect"
          /\ loc' = [loc EXCEPT !.success = TRUE]
          /\ UNCHANGED <<pending, sd, pm_current, profileDirs, ev>>
       \/ SearchFails("after_verify", TRUE)
       \/ InterruptInBody
    /\ UNCHANGED <<utilVars, par, cfg, num_searches, search_num, outcomes, waits>>

\* _detect_captcha, lines 248-272: True when a captcha selector matches; an
\* exception of the probe is caught and False returned (line 270).
DetectCaptcha ==
    /\ pc = "detect"
    /\ \/ /\ pc' = AfterDetect(TRUE, loc.success)
          /\ ev' = [ev EXCEPT !.captcha_detected = TRUE, !.captcha_checked = TRUE]
          /\ UNCHANGED <<loc, pending, sd, pm_current, profileDirs>>
       \/ /\ pc' = AfterDetect(FALSE, loc.success)
          /\ ev' = [ev EXCEPT !.captcha_checked = TRUE]
          /\ UNCHANGED <<loc, pending, sd, pm_current, profileDirs>>
       \/ /\ pc' = AfterDetect(FALSE, loc.success)
          /\ ev' = [ev EXCEPT !.captcha_checked = TRUE, !.raised = @ \cup {"detect"}]
          /\ UNCHANGED <<loc, pending, sd, pm_current, profileDirs>>
       \/ InterruptInBody
    /\ UNCHANGED <<utilVars, par, cfg, num_searches, search_num, outcomes, waits>>

\* _solve_captcha, lines 274-296: its return value. Without a solver it is
\* False; with one, the solver's answer (res), and False when it raised.
solve_captcha(has_solver, res) == has_solver /\ res = "solved"

SolverResults == {"solved", "unsolved", "raised"}

\* run_search_session lines 96-98 around _solve_captcha: an unsolved captcha
\* clears success. With a solver, _solve_captcha reads config.proxy_string
\* (line 282) and hands it to the solver.
SolveCaptcha ==
    /\ pc = "solve"
    /\ \/ \E t \in SessIds, res \in SolverResults :
             LET solved == solve_captcha(cfg.has_solver, res)
                 success == IF solved THEN loc.success ELSE FALSE IN
             /\ loc' = [loc EXCEPT !.captcha_solved = solved, !.success = success]
             /\ ev' = [ev EXCEPT
                         !.solver_sessid =
                             IF cfg.has_solver THEN {proxy_string(t).sessid} ELSE @,
                         !.failed = IF solved THEN @ ELSE "captcha",
                         !.raised = IF cfg.has_solver /\ res = "raised"
                                    THEN @ \cup {"solve"} ELSE @]
             /\ pc' = AfterCaptcha(success)
             /\ UNCHANGED <<pending, sd, pm_current, profileDirs>>
       \/ InterruptInBody
    /\ UNCHANGED <<utilVars, par, cfg, num_searches, search_num, outcomes, waits>>

\* _find_and_click_target, lines 298-347: go is the should_click_target draw,
\* found_ok = FALSE when find_elements raises (outer except, line 345). The
\* result says how the call ended: "no_target" (line 302), "skipped" (the draw,
\* line 308), "find_failed", "clicked" (line 336) or "no_match" (line 343).
find_and_click_target(has_target, go, found_ok, links) ==
    IF ~has_target
    THEN [clicked |-> FALSE, draws |-> 0, clicks |-> 0, raised |-> FALSE,
          visited |-> 0, how |-> "no_target"]
    ELSE IF ~go
    THEN [clicked |-> FALSE, draws |-> 1, clicks |-> 0, raised |-> FALSE,
          visited |-> 0, how |-> "skipped"]
    ELSE IF ~found_ok
    THEN [clicked |-> FALSE, draws |-> 1, clicks |-> 0, raised |-> TRUE,
          visited |-> 0, how |-> "find_failed"]
    ELSE LET r == scan_links(links, 1, 0, FALSE) IN
         [clicked |-> r.clicked, draws |-> 1, clicks |-> r.clicks, raised |-> r.raised,
          visited |-> r.visited,
          how |-> IF r.clicked THEN "clicked" ELSE "no_match"]

\* What the environment hands to one call of _find_and_click_target: the
\* draw, whether find_elements returned, and the links it returned (none
\* when the draw or find_elements ended the call before the scan).
TargetInputs ==
    {<<FALSE, TRUE, <<>>>>, <<TRUE, FALSE, <<>>>>}
        \cup {<<TRUE, TRUE, links>> : links \in LinkLists}

\* run_search_session line 102: target_clicked = self._find_and_click_target().
FindAndClickTarget ==
    /\ pc = "target"
    /\ \/ \E in \in TargetInputs :
             LET go == in[1]
                 found_ok == in[2]
                 links == in[3]
                 r == find_and_click_target(cfg.has_target, go, found_ok, links) IN
             /\ loc' = [loc EXCEPT !.target_clicked = r.clicked]
             /\ ev' = [ev EXCEPT !.target_called = TRUE,
                                 !.target_how = r.how,
                                 !.scanned = r.visited > 0,
                                 !.draws = @ + r.draws,
                                 !.clicks = @ + r.clicks,
                                 !.raised = IF r.raised THEN @ \cup {"target"} ELSE @]
             /\ pc' = "exit"
             /\ UNCHANGED <<pending, sd, pm_current, profileDirs>>
       \/ InterruptInBody
    /\ UNCHANGED <<utilVars, par, cfg, num_searches, search_num, outcomes, waits>>

\* StealthDriver.quit, lines 295-305. driver_quit_ok = FALSE when driver.quit()
\* raises: the exception leaves quit at line 298, before the reset of
\* self.driver and before the profile cleanup.
quit(sdv, pmcur, dirs, cleanup_enabled, driver_quit_ok, rmtree_ok) ==
    IF sdv.driver # NoDriver /\ ~driver_quit_ok
    THEN [sd |-> sdv, pm_current |-> pmcur, dirs |-> dirs,
          quit_called |-> TRUE, raised |-> TRUE]
    ELSE LET c == IF sdv.current_profile # NoProfile
                  THEN cleanup_profile(cleanup_enabled, dirs, pmcur,
                                       sdv.current_profile, rmtree_ok)
                  ELSE [dirs |-> dirs, pm_current |-> pmcur] IN
         [sd |-> [driver |-> NoDriver, current_profile |-> NoProfile],
          pm_current |-> c.pm_current, dirs |-> c.dirs,
          quit_called |-> sdv.driver # NoDriver, raised |-> FALSE]

\* Where control goes when the with block is left (gsb.py lines 83-116):
\* normally to the statements after it, with an Exception to the handler of
\* "except Exception", with KeyboardInterrupt out of run_search_session.
AfterExit(p) ==
    CASE p = "none" -> "record"
      [] p = "exc" -> "except"
      [] OTHER -> "interrupted"

\* StealthDriver.__exit__, lines 312-314: quit() on every way out of the with
\* body. An exception of quit replaces the one that was propagating.
ExitWith ==
    /\ pc = "exit"
    /\ \E driver_quit_ok \in BOOLEAN, rmtree_ok \in BOOLEAN :
          LET r == quit(sd, pm_current, profileDirs, cfg.cleanup_profiles,
                        driver_quit_ok, rmtree_ok)
              p == IF r.raised THEN "exc" ELSE pending IN
          /\ sd' = r.sd
          /\ pm_current' = r.pm_current
          /\ profileDirs' = r.dirs
          /\ ev' = [ev EXCEPT !.quit_called = @ \/ r.quit_called,
                              !.quit_raised = @ \/ r.raised,
                              !.raised = IF r.raised THEN @ \cup {"quit"} ELSE @]
          /\ pending' = p
          /\ pc' = AfterExit(p)
    /\ UNCHANGED <<utilVars, par, cfg, num_searches, search_num, loc, outcomes, waits>>

\* The record end_run receives (logger.py lines 99-102).
end_run(run, success, duration) ==
    [run |-> run, success |-> success, duration |-> duration]

\* gsb.py lines 104-111: the outcome of a session whose with block returned,
\* with the duration timer.stop() returns.
RecordOutcome ==
    /\ pc = "record"
    /\ outcomes' = Append(outcomes, end_run(search_num, loc.success,
                                             stop(loc.start_time, ev.clock)))
    /\ pc' = "wait"
    /\ UNCHANGED <<utilVars, par, cfg, num_searches, search_num, loc, pending, sd, pm_current,
                   profileDirs, ev, waits>>

\* gsb.py lines 113-116: the handler of "except Exception".
RecordException ==
    /\ pc = "except"
    /\ outcomes' = Append(outcomes, end_run(search_num, FALSE,
                                             stop(loc.start_time, ev.clock)))
    /\ pc' = "wait"
    /\ UNCHANGED <<utilVars, par, cfg, num_searches, search_num, loc, pending, sd, pm_current,
                   profileDirs, ev, waits>>

\* gsb.py lines 118-125 and the loop step of line 71: a wait after every
\* session but the last, then the next iteration; the wait is a sleep, which
\* an interrupt cuts.
WaitBetweenSearches ==
    /\ pc = "wait"
    /\ \/ /\ WaitDue(search_num, num_searches)
          /\ \E u1 \in Fractions, u2 \in Fractions :
                ev' = [ev EXCEPT !.waited = {inter_search_wait(u1, u2)}]
          /\ waits' = waits + 1
          /\ IF LoopContinues(search_num, num_searches)
             THEN search_num' = search_num + 1 /\ pc' = "get_term"
             ELSE search_num' = search_num /\ pc' = "done"
       \/ /\ WaitDue(search_num, num_searches)
          /\ pc' = "interrupted"
          /\ UNCHANGED <<waits, search_num, ev>>
       \/ /\ ~WaitDue(search_num, num_searches)
          /\ IF LoopContinues(search_num, num_searches)
             THEN search_num' = search_num + 1 /\ pc' = "get_term"
             ELSE search_num' = search_num /\ pc' = "done"
          /\ UNCHANGED <<waits, ev>>
    /\ UNCHANGED <<utilVars, par, cfg, num_searches, loc, pending, outcomes, sd, pm_current,
                   profileDirs>>

Next ==
    \/ ChooseNumSearches
    \/ GetNextSearchTerm
    \/ StartRun
    \/ EnterProfile
    \/ EnterChrome
    \/ Navigate
    \/ FindSearchBox
    \/ SubmitQuery
    \/ VerifyResults
    \/ FinishSearch
    \/ DetectCaptcha
    \/ SolveCaptcha
    \/ FindAndClickTarget
    \/ ExitWith
    \/ RecordOutcome
    \/ RecordException
    \/ WaitBetweenSearches

Spec == Init /\ [][Next]_vars
\* ------------------------------------------------------------ run_parallel
\* The variables of the single run, which the parallel instances leave alone.
runVars == <<pc, cfg, num_searches, search_num, loc, pending, outcomes, sd,
             pm_current, ev, waits>>

\* Instance i enters "with self.stealth_driver" (StealthDriver.__enter__ ->
\* create_driver): the profile, the options with a user agent picked by
\* random.choice from the catalog, then the browser. When Chrome() raises the
\* session is over without __exit__, and current_profile keeps the name.
ParEnter(i) ==
    /\ par[i].pc = "idle"
    /\ par[i].left > 0
    /\ \E name \in ProfileNames, how \in ProfileOutcomes, chrome_ok \in BOOLEAN,
          selected_ua \in get_user_agents :
          LET r == IF cfg.use_profiles
                   THEN create_random_profile(profileDirs, par[i].pm_current, name, how)
                   ELSE [dirs |-> profileDirs, pm_current |-> par[i].pm_current,
                         ret |-> par[i].current_profile, made |-> NoProfile] IN
          /\ profileDirs' = r.dirs
          /\ par' = [par EXCEPT
                       ![i].pm_current = r.pm_current,
                       ![i].current_profile = r.ret,
                       ![i].ua = {selected_ua},
                       ![i].prev_ua = par[i].ua,
                       ![i].driver = IF chrome_ok THEN 1 ELSE @,
                       ![i].using = IF chrome_ok THEN r.ret ELSE NoProfile,
                       ![i].pc = IF chrome_ok THEN "active" ELSE "idle",
                       ![i].left = IF chrome_ok THEN @ ELSE @ - 1]
    /\ UNCHANGED <<runVars, utilVars>>

\* Instance i leaves the with block (StealthDriver.__exit__ -> quit).
ParExit(i) ==
    /\ par[i].pc = "active"
    /\ \E driver_quit_ok \in BOOLEAN, rmtree_ok \in BOOLEAN :
          LET r == quit([driver |-> par[i].driver,
                         current_profile |-> par[i].current_profile],
                        par[i].pm_current, profileDirs, cfg.cleanup_profiles,
                        driver_quit_ok, rmtree_ok) IN
          /\ profileDirs' = r.dirs
          /\ par' = [par EXCEPT
                       ![i].driver = r.sd.driver,
                       ![i].current_profile = r.sd.current_profile,
                       ![i].pm_current = r.pm_current,
                       ![i].using = NoProfile,
                       ![i].pc = "idle",
                       ![i].left = @ - 1]
    /\ UNCHANGED <<runVars, utilVars>>

NextPar == \E i \in Instances : ParEnter(i) \/ ParExit(i)

SpecPar == Init /\ [][NextPar]_vars

\* ------------------------------------------------- run_parallel, the pool
\* The variables of the sessions, which the pool and the utilities leave alone.
sessionVars == <<runVars, par, profileDirs>>

\* GSBConfig() with its defaults (use_profiles and cleanup_profiles set, no
\* captcha key, no target), no session begun: the pool and the utilities
\* read none of it.
InitUtil ==
    /\ Init
    /\ cfg = [use_profiles |-> TRUE, cleanup_profiles |-> TRUE,
              has_solver |-> FALSE, has_target |-> FALSE]
    /\ num_searches = NoneGiven

\* cli.py lines 100-104: executor.submit(run_instance, i) for every i; all
\* futures exist before the first result is waited for.
SubmitAll ==
    /\ pool.pc = "submit"
    /\ \E searches_per_instance \in 1..MaxSearches :
          pool' = [pool EXCEPT
                     !.pc = "collect",
                     !.searches_per_instance = searches_per_instance,
                     !.inst = [i \in Instances |-> [@[i] EXCEPT !.at = "get_config"]]]
    /\ UNCHANGED <<sessionVars, patterns, call>>

\* run_instance, line 87: config = get_config(headless=headless), outside
\* the try of line 89. Its exception ends run_instance and is kept by the
\* future.
GetConfig(i) ==
    /\ pool.inst[i].at = "get_config"
    /\ \/ pool' = [pool EXCEPT !.inst[i].at = "construct"]
       \/ pool' = [pool EXCEPT !.inst[i].at = "raised",
                               !.inst[i].raised = {"get_config"}]
    /\ UNCHANGED <<sessionVars, patterns, call>>

\* run_instance, line 90: bot = GoogleSearchBot(config, instance_id), inside
\* the try: its exception is caught at line 94 and False returned.
ConstructBot(i) ==
    /\ pool.inst[i].at = "construct"
    /\ \/ pool' = [pool EXCEPT !.inst[i].at = "run"]
       \/ pool' = [pool EXCEPT !.inst[i].at = "returned_false",
                               !.inst[i].raised = {"construct"}]
    /\ UNCHANGED <<sessionVars, patterns, call>>

\* run_instance, lines 91-96: bot.run_search_session(searches_per_instance)
\* returns (True) or raises an Exception (False).
RunInstance(i) ==
    /\ pool.inst[i].at = "run"
    /\ \/ pool' = [pool EXCEPT !.inst[i].at = "returned_true",
                               !.inst[i].asked = pool.searches_per_instance]
       \/ pool' = [pool EXCEPT !.inst[i].at = "returned_false",
                               !.inst[i].asked = pool.searches_per_instance,
                               !.inst[i].raised = {"run_search_session"}]
    /\ UNCHANGED <<sessionVars, patterns, call>>

\* run_instance(i) is over.
Finished(i) == pool.inst[i].at \in {"returned_true", "returned_false", "raised"}

\* cli.py lines 107-109: as_completed yields a finished future, in the order
\* of completion; future.result() returns run_instance's value or raises
\* what it raised, which leaves the loop.
Collect(i) ==
    /\ pool.pc = "collect"
    /\ Finished(i)
    /\ i \notin pool.collected
    /\ IF pool.inst[i].at = "raised"
       THEN pool' = [pool EXCEPT !.pc = "leaving",
                                 !.collected = @ \cup {i}]
       ELSE pool' = [pool EXCEPT
                       !.collected = @ \cup {i},
                       !.results = Append(@, pool.inst[i].at = "returned_true")]
    /\ UNCHANGED <<sessionVars, patterns, call>>

\* sum(results)
RECURSIVE sum(_)
sum(results) ==
    IF results = <<>> THEN 0
    ELSE (IF Head(results) THEN 1 ELSE 0) + sum(Tail(results))

\* cli.py lines 111-112: the loop is over, the with block is left and the
\* summary logged.
Summary ==
    /\ pool.pc = "collect"
    /\ pool.collected = Instances
    /\ pool' = [pool EXCEPT !.pc = "summary", !.successful = sum(pool.results)]
    /\ UNCHANGED <<sessionVars, patterns, call>>

\* cli.py lines 117-119: the exception of future.result() leaves the with
\* block, whose exit waits for every instance (executor.shutdown(wait=True)),
\* and reaches "except Exception": sys.exit(1), no summary.
ExitOnError ==
    /\ pool.pc = "leaving"
    /\ \A i \in Instances : Finished(i)
    /\ pool' = [pool EXCEPT !.pc = "exit_1"]
    /\ UNCHANGED <<sessionVars, patterns, call>>

NextPool ==
    \/ SubmitAll
    \/ \E i \in Instances : GetConfig(i) \/ ConstructBot(i) \/ RunInstance(i) \/ Collect(i)
    \/ Summary
    \/ ExitOnError

SpecPool == InitUtil /\ [][NextPool]_vars

\* ---------------------------------------------------------------- utilities
\* Activity names a caller may pass: the registered ones and others.
Activities == DOMAIN TimingPattern \cup {"scroll", ""}

\* TimingPattern.get_pattern(activity): self.patterns.get(activity, (1.0, 2.0)).
get_pattern(pats, activity) ==
    IF activity \in DOMAIN pats THEN pats[activity] ELSE <<100, 200>>

\* wait_for with another default bound than get_pattern's.
wait_forOtherDefault(pats, activity, u) ==
    IF activity \in DOMAIN pats
    THEN human_sleep(pats[activity][1], pats[activity][2], u)
    ELSE human_sleep(100, 300, u)

\* TimingPattern.wait_for(activity): the duration it sleeps.
wait_for(pats, activity, u) ==
    IF activity \in DOMAIN pats
    THEN human_sleep(pats[activity][1], pats[activity][2], u)
    ELSE human_sleep(100, 200, u)

\* Bounds a caller passes to human_sleep directly (gsb.py line 125 passes the
\* same value twice).
SleepBounds ==
    {b \in {50, 100, 150} \X {50, 100, 150} : b[1] <= b[2]}

\* self.timing.wait_for(activity)
WaitFor ==
    /\ \E activity \in Activities, u \in Fractions :
          call' = [op |-> "wait_for", activity |-> activity,
                   duration |-> wait_for(patterns, activity, u)]
    /\ UNCHANGED <<sessionVars, patterns, pool>>

\* get_pattern as a lookup that registers the default bound of an activity
\* it does not know (dict.setdefault in place of dict.get).
GetPatternRegistering ==
    /\ \E activity \in Activities :
          /\ call' = [op |-> "get_pattern", activity |-> activity,
                      bound |-> get_pattern(patterns, activity)]
          /\ patterns' = [a \in DOMAIN patterns \cup {activity} |->
                             get_pattern(patterns, a)]
    /\ UNCHANGED <<sessionVars, pool>>

\* self.timing.get_pattern(activity)
GetPattern ==
    /\ \E activity \in Activities :
          call' = [op |-> "get_pattern", activity |-> activity,
                   bound |-> get_pattern(patterns, activity)]
    /\ UNCHANGED <<sessionVars, patterns, pool>>

\* human_sleep(min_seconds, max_seconds)
HumanSleep ==
    /\ \E b \in SleepBounds, u \in Fractions :
          call' = [op |-> "human_sleep", min_seconds |-> b[1],
                   max_seconds |-> b[2],
                   duration |-> human_sleep(b[1], b[2], u)]
    /\ UNCHANGED <<sessionVars, patterns, pool>>

\* random.random() lies in [0, 1): the fractions u/UniformSteps below 1.
RandomDraws == 0..(UniformSteps - 1)

\* GSBConfig.click_probability, in the same units (UniformSteps is 1.0).
Probabilities == 0..UniformSteps

\* should_click_target with the comparison made inclusive.
should_click_targetInclusive(click_probability, draw) ==
    draw <= click_probability

\* search_manager.should_click_target(config):
\* random.random() < config.click_probability.
should_click_target(click_probability, draw) == draw < click_probability

\* should_click_target(config)
ShouldClickTarget ==
    /\ \E click_probability \in Probabilities, draw \in RandomDraws :
          call' = [op |-> "should_click_target",
                   click_probability |-> click_probability, draw |-> draw,
                   result |-> should_click_target(click_probability, draw)]
    /\ UNCHANGED <<sessionVars, patterns, pool>>

\* Tokens random.randint(606150694, 606250693 + 1) can return.
SessIdDrawsBeyond ==
    SessIds \cup ((SessIdMax - NumSessIds + 1)..(SessIdMax + 1))

\* Tokens random.randint(606150694, 606250693) can return: the values at
\* both ends of the closed range.
SessIdDraws ==
    SessIds \cup ((SessIdMax - NumSessIds + 1)..SessIdMax)

\* A read of config.proxy_string that draws the token sessid; the token of
\* the read before it is kept beside the result.
ProxyStringWith(sessid) ==
    /\ call' = [op |-> "proxy_string", proxy |-> proxy_string(sessid),
                previous |-> IF call.op = "proxy_string"
                             THEN {call.proxy.sessid} ELSE {}]
    /\ UNCHANGED <<sessionVars, patterns, pool>>

\* config.proxy_string
ProxyString == \E sessid \in SessIdDraws : ProxyStringWith(sessid)

\* self._verify_search_results() with the given results of the four probes,
\* and what _perform_search makes of it.
VerifySearchResults ==
    /\ \E probes \in ProbeResults :
          LET r == verify_search_results(probes, 1) IN
          call' = [op |-> "verify_search_results", probes |-> probes,
                   ok |-> r.ok, tried |-> r.tried,
                   search_failed |-> fails_at_verification(r.ok)]
    /\ UNCHANGED <<sessionVars, patterns, pool>>

\* Characters of a URL or of the configured target.
UrlChars == {"a", "A", "b"}

\* The strings of at most n characters.
Strings(chars, n) == UNION {[1..k -> chars] : k \in 0..n}

\* str.lower()
lower(str) == [k \in 1..Len(str) |-> IF str[k] = "A" THEN "a" ELSE str[k]]

\* needle in hay
contains(hay, needle) ==
    \E at \in 0..(Len(hay) - Len(needle)) :
        \A k \in 1..Len(needle) : hay[at + k] = needle[k]

\* gsb.py line 319: href and target_website.lower() in href.lower().
href_matches(target_website, href) ==
    href # <<>> /\ contains(lower(href), lower(target_website))

\* The test of line 319 on one link.
HrefMatches ==
    /\ \E target_website \in Strings(UrlChars, MaxUrlLen) \ {<<>>},
          href \in Strings(UrlChars, MaxUrlLen) :
          call' = [op |-> "href_matches", target_website |-> target_website,
                   href |-> href,
                   result |-> href_matches(target_website, href)]
    /\ UNCHANGED <<sessionVars, patterns, pool>>

\* The links human_click was performed on while the first `visited` links
\* were scanned: a link whose click went through, whether or not the wait,
\* screenshot or dwell after it raised.
clicked_links(links, visited) ==
    {i \in 1..visited : links[i] \in {"match", "post_raises"}}

\* The links whose href contains the target.
matching_links(links) ==
    {i \in 1..Len(links) : links[i] \in {"match", "click_raises", "post_raises"}}

\* self._find_and_click_target() with a target configured.
FindAndClickTargetCall ==
    /\ \E in \in TargetInputs :
          LET r == find_and_click_target(TRUE, in[1], in[2], in[3]) IN
          call' = [op |-> "find_and_click_target", links |-> in[3],
                   attempted |-> in[1] /\ in[2],
                   clicked |-> clicked_links(in[3], r.visited),
                   returned |-> r.clicked]
    /\ UNCHANGED <<sessionVars, patterns, pool>>

\* Characters of a search term or of the configured suffix.
TermChars == {"a", " "}

\* str.strip(): leading and trailing whitespace removed.
RECURSIVE strip(_)
strip(str) ==
    IF str = <<>> THEN str
    ELSE IF Head(str) = " " THEN strip(Tail(str))
    ELSE IF str[Len(str)] = " " THEN strip(SubSeq(str, 1, Len(str) - 1))
    ELSE str

\* str.replace(old, ""), old not empty: every occurrence of old, found from
\* left to right without overlap, is removed.
RECURSIVE replace(_, _)
replace(str, old) ==
    IF Len(str) < Len(old) THEN str
    ELSE IF SubSeq(str, 1, Len(old)) = old
    THEN replace(SubSeq(str, Len(old) + 1, Len(str)), old)
    ELSE <<Head(str)>> \o replace(Tail(str), old)

\* The entries self.search_terms can hold: lines and variations are stripped
\* and not empty.
SearchTerms ==
    {t \in Strings(TermChars, MaxTermLen) : t # <<>> /\ strip(t) = t}

\* Values of config.suffix: none (the default), or a word.
Suffixes == {<<>>, <<"a">>}

\* SearchTermManager.get_next_search_term, lines 84-85, on the chosen term.
with_suffix(term, suffix) ==
    IF suffix # <<>> THEN term \o <<" ">> \o suffix ELSE term

\* MongoSearchManager.get_next_search_term, line 151:
\* term.replace(f" {self.config.suffix}", "").strip()
base_term(term, suffix) == strip(replace(term, <<" ">> \o suffix))

\* MongoSearchManager.get_next_search_term(): random.choice picks `chosen`,
\* the suffix is appended, and the usage of base_term is updated.
MongoGetNextSearchTerm ==
    /\ \E chosen \in SearchTerms, suffix \in Suffixes :
          LET term == with_suffix(chosen, suffix) IN
          call' = [op |-> "get_next_search_term", chosen |-> chosen,
                   suffix |-> suffix, returned |-> term,
                   updated |-> base_term(term, suffix)]
    /\ UNCHANGED <<sessionVars, patterns, pool>>

NextUtil ==
    \/ WaitFor
    \/ GetPattern
    \/ HumanSleep
    \/ ShouldClickTarget
    \/ ProxyString
    \/ VerifySearchResults
    \/ HrefMatches
    \/ FindAndClickTargetCall
    \/ MongoGetNextSearchTerm

SpecUtil == InitUtil /\ [][NextUtil]_vars
\* ------------------------------------------------------------------ claims
\* The session of the current iteration is over: its with block was left (or
\* never entered) and control is at or past the recording of the outcome.
SessionEnded == pc \in {"record", "except", "wait", "done"} \/ (pc = "interrupted" /\ ev.started)

\* end_run was called for the current iteration.
Recorded == pc \in {"wait", "done"}

\* The outcome recorded for the current iteration.
CurrentOutcome == outcomes[search_num + 1]

\* Stages of a session in which a collaborator is called.
StageNames ==
    {"navigate", "find_box", "submit", "verify", "after_verify", "detect",
     "solve", "target"}

\* C1 (as claimed): in a run that no interrupt cuts, whatever stages fail and
\* whatever collaborators raise during its sessions, run_search_session does
\* not raise, runs its num_searches sessions in order with one outcome each,
\* and each session's outcome is decided by that session's own events:
\* success is false when the session failed or raised, true otherwise.
C1_FailuresAreRecordedAndLoopContinues ==
    (pc # "interrupted" /\ ~ev.interrupted) =>
        /\ pc # "raised"
        /\ pc \in {"wait", "done"} => Len(outcomes) = search_num + 1
        /\ pc \notin {"wait", "done"} => Len(outcomes) = search_num
        /\ \A k \in 1..Len(outcomes) : outcomes[k].run = k - 1
        /\ pc = "done" => Len(outcomes) = num_searches
        /\ Recorded => (CurrentOutcome.success <=>
                          (ev.failed = "none" /\ ev.raised \cap {"create_driver", "quit"} = {}))

\* C2: in a session where a captcha was detected and is not solved, the target
\* step is never entered, no link is clicked, and the recorded outcome has
\* success = false.
C2_UnsolvedCaptchaBlocksTarget ==
    (ev.captcha_detected /\ ~loc.captcha_solved) =>
        /\ pc # "target"
        /\ ~ev.target_called
        /\ ev.clicks = 0
        /\ Recorded => ~CurrentOutcome.success

\* C2 witness: a target and a solver are configured, the captcha was detected,
\* the solver raised, and the session's outcome has been recorded.
C2_Witness ==
    /\ Recorded
    /\ cfg.has_target /\ cfg.has_solver
    /\ ev.captcha_detected /\ ~loc.captcha_solved
    /\ "solve" \in ev.raised

\* C3 (as claimed): an interrupt during session k < N stops the run, and an
\* outcome marking session k failed is recorded, so that k outcomes exist.
C3_InterruptRecordsCancelledOutcome ==
    (ev.interrupted /\ search_num + 1 < num_searches) =>
        /\ pc \in {"exit", "interrupted"}
        /\ pc = "interrupted" =>
              /\ Len(outcomes) = search_num + 1
              /\ ~CurrentOutcome.success

\* C4 (as claimed): when a session has ended, the driver created for it has
\* had quit called and StealthDriver.driver is None again.
C4_DriverReleasedOnEveryExit ==
    (SessionEnded /\ ev.driver_created) =>
        /\ ev.quit_called
        /\ sd.driver = NoDriver

\* C5 (as claimed): when a session has ended, the profile directory made for it
\* is gone if cleanup_profiles is set, and still there if it is not.
C5_ProfileDeletedAtSessionEnd ==
    (SessionEnded /\ ev.profile # NoProfile) =>
        (cfg.cleanup_profiles <=> ev.profile \notin profileDirs)

\* C6 (as claimed): the session token in the proxy string the browser was
\* created with equals the one handed to the captcha solver in that session.
C6_ProxyTokenStableInSession ==
    \A b \in ev.browser_sessid, c \in ev.solver_sessid : b = c

\* C7 (as claimed): a session in which a collaborator raised during a stage is
\* recorded with success = false.
C7_StageExceptionFailsSession ==
    (Recorded /\ ev.raised \cap StageNames # {}) => ~CurrentOutcome.success

\* C8 (as claimed): the recorded success is false only when a stage up to the
\* captcha handling failed (the browser could not be created, navigation or
\* search, results verification, captcha) or was cut by an interrupt, and
\* true otherwise, whatever the target step and the release of the browser and
\* profile do.
C8_SuccessIffNoFailedStage ==
    Recorded => (CurrentOutcome.success <=> (ev.failed = "none" /\ ~ev.interrupted))

\* C9 (as claimed): an error of the search-term source is recorded as the
\* failure of that one session and the run goes on to the next session: it
\* is never the end of run_search_session.
C9_TermSourceErrorNeverAborts == pc # "raised"

\* C10 (as claimed), for the instances of run_parallel: two live sessions of
\* different instances never run on the same profile directory, and the
\* directory a live session runs on is never deleted under it.
C10_ProfileExclusivelyOwned ==
    \A i \in Instances :
        (par[i].pc = "active" /\ par[i].using # NoProfile) =>
            /\ par[i].using \in profileDirs
            /\ \A j \in Instances \ {i} :
                  par[j].pc = "active" => par[j].using # par[i].using

\* C11: one inter-session wait follows each session but the last, after that
\* session's outcome was recorded and whatever that outcome is: the waits
\* made so far number the sessions completed before the current one, never
\* more than the outcomes recorded; a finished run of N sessions has made
\* N - 1 waits; and every wait lasts between min_search_interval and
\* max_search_interval seconds.
C11_OneWaitBetweenSessions ==
    /\ waits = search_num
    /\ waits <= Len(outcomes)
    /\ pc = "done" => waits = num_searches - 1
    /\ \A d \in ev.waited :
          /\ min_search_interval <= d /\ d <= max_search_interval
          /\ Len(outcomes) = waits

\* C11 witness: the wait after a session that raised (the browser could not
\* be created) has just been made, and the next session is about to start.
C11_Witness ==
    /\ pc = "get_term"
    /\ waits = 1
    /\ ev.waited # {}
    /\ "create_driver" \in ev.raised
    /\ ~outcomes[1].success

\* The stages of a session in the order of the code, by position.
StageRank ==
    [enter_profile |-> 1, enter_chrome |-> 2, navigate |-> 3, find_box |-> 4,
     submit |-> 5, verify |-> 6, after_verify |-> 7, detect |-> 8, solve |-> 9,
     target |-> 10]

\* One step of a session obeys the stage order: control moves forward only,
\* and enters a stage only from its prerequisite.
StageStep ==
    /\ (pc \in DOMAIN StageRank /\ pc' \in DOMAIN StageRank) =>
          StageRank[pc'] > StageRank[pc]
    /\ pc' = "navigate" => pc = "enter_chrome" /\ ev'.driver_created
    /\ pc' = "find_box" => pc = "navigate"
    /\ pc' = "submit" => pc = "find_box"
    /\ pc' = "verify" => pc = "submit"
    /\ pc' = "after_verify" => pc = "verify" /\ ev'.failed = "none"
    /\ pc' = "detect" => pc = "after_verify" /\ loc'.success /\ ev'.failed = "none"
    /\ pc' = "solve" => pc = "detect" /\ ev'.captcha_detected
    /\ pc' = "target" =>
          \/ pc = "detect" /\ ~ev'.captcha_detected
          \/ pc = "solve" /\ ev'.captcha_detected /\ loc'.captcha_solved

\* C12: within a session the stages run in the order acquire browser,
\* navigate, submit query, verify results, detect captcha, solve captcha,
\* target: captcha detection starts only after results verification
\* succeeded, solving only after a captcha was detected, and the target step
\* only after detection returned no captcha or the captcha was solved.
C12_StagesRunInOrder == [][pc' # pc => StageStep]_vars

\* C12 witness: the target step has been reached through a detected and
\* solved captcha.
C12_Witness ==
    /\ pc = "target"
    /\ ev.driver_created
    /\ ev.captcha_detected /\ loc.captcha_solved

\* C13 (as claimed), for the consecutive sessions of each instance: the user
\* agent picked for a session differs from the one picked for the session
\* before it.
C13_FingerprintDiffersFromPrevious ==
    \A i \in Instances : par[i].ua \cap par[i].prev_ua = {}

\* C14 (as claimed): every recorded outcome with success = false carries the
\* stage at which the session failed.
C14_FailedOutcomeNamesStage ==
    \A k \in 1..Len(outcomes) :
        ~outcomes[k].success => "failure_stage" \in DOMAIN outcomes[k]

\* C15: a session that was started and that no interrupt cuts has no outcome
\* while it runs and exactly one once it is over, recorded under its own run
\* id, on the success path, the stage-failure path and the exception path;
\* the recorded duration is the time that passed since timer.start(), which
\* precedes every stage.
C15_OneOutcomePerStartedSession ==
    (ev.started /\ ~ev.interrupted /\ pc \notin {"interrupted", "raised"}) =>
        /\ \A k \in 1..Len(outcomes) : outcomes[k].run = k - 1
        /\ pc \in {"wait", "done"} =>
              /\ Len(outcomes) = search_num + 1
              /\ CurrentOutcome.duration = ev.elapsed
        /\ pc \notin {"wait", "done"} => Len(outcomes) = search_num
        /\ pc \in {"start_run", "enter_profile"} => ev.elapsed = 0

\* C15 witness: the second session of a run ended on the exception path
\* (driver.quit raised) and its outcome, with its duration, is recorded.
C15_Witness ==
    /\ Recorded
    /\ search_num = 1
    /\ ~ev.interrupted
    /\ "quit" \in ev.raised
    /\ Len(outcomes) = 2
    /\ outcomes[2].duration = 1

\* C16 (as claimed): a session whose target step scanned every candidate link
\* and found no match records target_clicked = false and success = true.
C16_NoMatchLeavesSuccess ==
    (Recorded /\ ev.target_how = "no_match") =>
        /\ ~loc.target_clicked
        /\ CurrentOutcome.success

\* C17 (as claimed): a session makes at most one should_click_target draw,
\* and exactly one when its target step runs with a target configured; when
\* the draw decides against the attempt no link is scanned or clicked and the
\* session is recorded with success = true.
C17_OneDrawDecidesAttempt ==
    /\ ev.draws <= 1
    /\ (ev.target_called /\ cfg.has_target) => ev.draws = 1
    /\ ev.target_how = "skipped" =>
          /\ ~ev.scanned /\ ev.clicks = 0 /\ ~loc.target_clicked
          /\ Recorded => CurrentOutcome.success

\* C19 (as claimed): a session that verified its results, found no captcha and
\* has no target configured is recorded with success = true and
\* target_clicked = false, having made no draw and scanned no link.
C19_NoCaptchaNoTargetSucceeds ==
    (Recorded /\ ev.captcha_checked /\ ~ev.captcha_detected /\ ~cfg.has_target) =>
        /\ CurrentOutcome.success
        /\ ~loc.target_clicked
        /\ ev.draws = 0 /\ ~ev.scanned /\ ~ev.target_called

\* One step of run_search_session keeps to the number of searches decided at
\* its entry.
SessionCountStep ==
    /\ pc = "entry" =>
          IF num_searches = NoneGiven
          THEN /\ num_searches' \in search_range_min..search_range_max
               /\ ev'.count_draws = 1
          ELSE /\ num_searches' = num_searches
               /\ ev'.count_draws = 0
    /\ pc # "entry" =>
          /\ num_searches' = num_searches
          /\ ev'.count_draws <= ev.count_draws
    /\ Len(outcomes') <= num_searches'
    /\ pc' = "done" => Len(outcomes') = num_searches'

C20_RunEndsAfterAllSessions ==
    (~ev.interrupted /\ pc # "interrupted") =>
        /\ pc = "done" \/ ENABLED Next
        /\ pc = "done" => Len(outcomes) = num_searches /\ search_num = num_searches - 1
        /\ pc = "verify" =>
              \A probes \in ProbeResults :
                  verify_search_results(probes, 1).tried <= NumProbes
        /\ pc = "target" =>
              \A links \in LinkLists :
                  scan_links(links, 1, 0, FALSE).visited <= Len(links)

\* C21: TimingPattern.wait_for(activity) sleeps a duration within the bound
\* get_pattern(activity) returns, which is the registered bound of a
\* registered activity and (1.0, 2.0) otherwise; human_sleep never leaves
\* [min, max] and sleeps exactly min when min = max.
C21_WaitWithinPatternBound ==
    /\ call.op = "wait_for" =>
          LET bound == get_pattern(patterns, call.activity) IN
          /\ bound = IF call.activity \in DOMAIN patterns
                     THEN patterns[call.activity] ELSE <<100, 200>>
          /\ bound[1] <= call.duration
          /\ call.duration <= bound[2]
          /\ bound[1] = bound[2] => call.duration = bound[1]
    /\ call.op = "human_sleep" =>
          /\ call.min_seconds <= call.duration
          /\ call.duration <= call.max_seconds
          /\ call.min_seconds = call.max_seconds =>
                call.duration = call.min_seconds

\* C21 witness: an unregistered activity was waited for, for the whole of
\* the default bound.
C21_Witness ==
    /\ call.op = "wait_for"
    /\ call.activity \notin DOMAIN patterns
    /\ call.duration = 200


\* C22: every bound of the timing profile has 0 < min <= max (min < max for
\* "search"), and the profile stays as TimingPattern.__init__ built it: no
\* wait_for, get_pattern or human_sleep adds, removes or changes a bound.
C22_TimingProfileImmutable ==
    /\ \A activity \in DOMAIN patterns :
          /\ 0 < patterns[activity][1]
          /\ patterns[activity][1] <= patterns[activity][2]
    /\ patterns["search"][1] < patterns["search"][2]
    /\ patterns = TimingPattern

\* C22 witness: get_pattern was asked for an activity that is not
\* registered and answered with the default bound.
C22_Witness ==
    /\ call.op = "get_pattern"
    /\ call.activity = "scroll"
    /\ call.bound = <<100, 200>>
    /\ "scroll" \notin DOMAIN patterns


\* C23: should_click_target returns true on every call when
\* click_probability is 1.0, false on every call when it is 0.0, and in
\* general true exactly when its draw from [0, 1) is strictly below
\* click_probability.
C23_ClickDecisionFollowsDraw ==
    call.op = "should_click_target" =>
        /\ call.click_probability = UniformSteps => call.result
        /\ call.click_probability = 0 => ~call.result
        /\ call.result <=> call.draw < call.click_probability

\* C23 witness: with click_probability 1.0 the largest draw still says click.
C23_Witness ==
    /\ call.op = "should_click_target"
    /\ call.click_probability = UniformSteps
    /\ call.draw = UniformSteps - 1
    /\ call.result


\* C24: a proxy string has the fixed customer prefix and the endpoint
\* pr.oxylabs.io:7777 and embeds an integer token in the closed range
\* [606150694, 606250693]; whatever the token of the read before, the next
\* read can give every token of the range (no counter, no fixed stride).
C24_ProxyTokenInRangeAndFresh ==
    /\ call.op = "proxy_string" =>
          /\ call.proxy.scheme = "https"
          /\ call.proxy.customer = "customer-nivos_qR24w-cc-us"
          /\ call.proxy.host = "pr.oxylabs.io"
          /\ call.proxy.port = 7777
          /\ call.proxy.sessid \in Int
          /\ SessIdMin <= call.proxy.sessid
          /\ call.proxy.sessid <= SessIdMax
    /\ \A t \in {SessIdMin, SessIdMin + 1, SessIdMax - 1, SessIdMax} :
          ENABLED (ProxyString /\ call'.proxy.sessid = t)

\* C24 witness: the largest token of the range is followed by the smallest.
C24_Witness ==
    /\ call.op = "proxy_string"
    /\ call.previous = {SessIdMax}
    /\ call.proxy.sessid = SessIdMin


\* C25 (as claimed): at most one browser driver is live at any time: the
\* driver of a session was quit (StealthDriver.driver is None again) when the
\* session's outcome is recorded, while the inter-session wait is due, and
\* when the driver of the next session is about to be created.
C25_OneLiveDriver ==
    /\ pc \in {"record", "wait", "done"} => sd.driver = NoDriver
    /\ pc \in {"get_term", "start_run", "enter_profile", "enter_chrome"} =>
          sd.driver = NoDriver


\* C26: _verify_search_results consults the probes in their order, returns
\* true at the first probe that finds its element, without consulting a
\* later one, and returns false only when every probe timed out or a probe
\* raised another error; _perform_search fails at verification exactly then.
C26_FirstSuccessfulProbeDecides ==
    call.op = "verify_search_results" =>
        /\ call.tried \in 0..NumProbes
        /\ \A j \in 1..(call.tried - 1) : call.probes[j] = "timeout"
        /\ call.ok <=> (call.tried >= 1 /\ call.probes[call.tried] = "found")
        /\ ~call.ok <=>
              \/ \A j \in 1..NumProbes : call.probes[j] = "timeout"
              \/ call.tried >= 1 /\ call.probes[call.tried] = "error"
        /\ call.search_failed <=> ~call.ok

\* C26 witness: the second probe (".g") succeeds after the first timed out,
\* and the later probes, which would have raised, are not consulted.
C26_Witness ==
    /\ call.op = "verify_search_results"
    /\ call.probes = <<"timeout", "found", "error", "error">>
    /\ call.ok
    /\ call.tried = 2
    /\ ~call.search_failed


\* C27 (as claimed): a link matches when its URL contains the target as a
\* case-insensitive substring; when the target step attempts a click, every
\* link it clicks matches, no link before a clicked link matches or is
\* clicked, and it returns true exactly when it clicked a link.
C27_FirstMatchingLinkClicked ==
    /\ call.op = "href_matches" =>
          (call.result <=>
              \E at \in 0..(Len(call.href) - Len(call.target_website)) :
                  \A k \in 1..Len(call.target_website) :
                      lower(<<call.href[at + k]>>) =
                          lower(<<call.target_website[k]>>))
    /\ (call.op = "find_and_click_target" /\ call.attempted) =>
          /\ call.clicked \subseteq matching_links(call.links)
          /\ \A i \in call.clicked : \A j \in 1..(i - 1) :
                j \notin matching_links(call.links) /\ j \notin call.clicked
          /\ call.returned <=> call.clicked # {}

\* C29 (as claimed): human_click is performed on at most one link in a
\* session, also when the wait, screenshot or dwell after the click raises
\* and further matching links follow.
C29_AtMostOneClickPerSession == ev.clicks <= 1


\* C30 (as claimed): MongoSearchManager.get_next_search_term updates the
\* usage count of the term it selected: the base term derived from the
\* returned term equals the term chosen from the list, for every term and
\* every suffix, the empty suffix and terms with spaces included.
C30_UsageUpdatedForChosenTerm ==
    call.op = "get_next_search_term" => call.updated = call.chosen


\* C28 (as claimed): run_parallel starts n instances, each asked to run
\* searches_per_instance sessions; when it has ended the summary was
\* produced, after all n instances finished, from exactly n results, with
\* the successful count equal to the number of instances in which nothing
\* raised; an exception in one instance does not keep another instance from
\* finishing or from having its own result collected.
C28_ParallelResultsIndependent ==
    /\ pool.pc # "submit" => \A i \in Instances : pool.inst[i].at # "none"
    /\ \A i \in Instances :
          pool.inst[i].asked \in {0, pool.searches_per_instance}
    /\ pool.pc \in {"summary", "exit_1"} =>
          /\ pool.pc = "summary"
          /\ \A i \in Instances : Finished(i)
          /\ Len(pool.results) = NumInstances
          /\ pool.successful =
                Cardinality({i \in Instances : pool.inst[i].raised = {}})

====
